---- MODULE Spec2Model ----
(***************************************************************************)
(* imread_unicode / imwrite_unicode of modules/__init__.py, together with  *)
(* the three collaborators they call: os.path.splitext, numpy's            *)
(* fromfile/tofile on a file system, and cv2's imencode/imdecode.          *)
(*                                                                         *)
(* A path is a sequence of tokens: "." , "/" (the POSIX separator) or a    *)
(* non-empty run of other characters.  A file is a sequence of chunks (a   *)
(* header chunk and a pixel-data chunk for an encoded image).  An image is *)
(* a numpy uint8 array of shape (h, w) or (h, w, c) whose pixels all hold  *)
(* the same tuple px.                                                      *)
(***************************************************************************)
EXTENDS Integers, Sequences, FiniteSets, TLC

MaxDim == 1
MaxSample == 1

Dot == "."
Sep == "/"

\* ---------------------------------------------------------------- paths

RECURSIVE LastIndex(_, _, _)
\* str.rfind: the largest i <= n with p[i] = ch, 0 when there is none
LastIndex(p, ch, n) ==
    IF n = 0 THEN 0
    ELSE IF p[n] = ch THEN n
    ELSE LastIndex(p, ch, n - 1)

\* os.path.splitext (genericpath._splitext): <<root, ext>>.  The extension
\* starts at the last dot of the last component, unless only dots precede it
\* in that component.
splitext(p) ==
    LET sepIndex == LastIndex(p, Sep, Len(p))
        dotIndex == LastIndex(p, Dot, Len(p))
    IN  IF /\ dotIndex > sepIndex
           /\ \E k \in (sepIndex + 1)..(dotIndex - 1) : p[k] # Dot
        THEN <<SubSeq(p, 1, dotIndex - 1), SubSeq(p, dotIndex, Len(p))>>
        ELSE <<p, <<>>>>

\* line 14: ext = ".png"
DefaultExt == <<Dot, "png">>

\* lines 13-14: the extension after defaulting
EffectiveExtAlwaysDefault(ext) == DefaultExt
EffectiveExt(ext) == IF ext = <<>> THEN DefaultExt ELSE ext

\* lines 13-15: the local `path` after defaulting
EffectivePathNoAppend(path, ext) == path
EffectivePathAlwaysAppend(path, ext) == path \o DefaultExt
EffectivePath(path, ext) == IF ext = <<>> THEN path \o DefaultExt ELSE path

\* line 16: the string handed to cv2.imencode
CodecExtArgPath(path, ext) == path
CodecExtArg(path, ext) == ext

\* line 18: the path handed to ndarray.tofile
TofilePathRoot(root, path) == root
TofilePath(root, path) == path

\* ---------------------------------------------------------------- images

Dims == 0..MaxDim
Samples == 0..MaxSample

\* c = 0 stands for a two-dimensional array, shape (h, w)
ChannelKinds == {0, 1, 2, 3, 4}

\* Mat::channels() of the array
NChannels(c) == IF c = 0 THEN 1 ELSE c

\* the pixel tuples of the inputs: colour samples equal (B = G = R = v), the
\* second sample of a 2-channel pixel and the alpha sample free
Pixels(c) ==
    IF c \in {0, 1} THEN {<<v>> : v \in Samples}
    ELSE IF c = 2 THEN {<<v, a>> : v \in Samples, a \in Samples}
    ELSE IF c = 3 THEN {<<v, v, v>> : v \in Samples}
    ELSE {<<v, v, v, a>> : v \in Samples, a \in Samples}

Img(h, w, c, px) == [h |-> h, w |-> w, c |-> c, px |-> px]

IsEmptyImg(img) == img.h = 0 \/ img.w = 0

Images ==
    {Img(h, w, c, px) : h \in Dims \ {0}, w \in Dims \ {0}, c \in {0}, px \in Pixels(0)}
    \cup {Img(h, w, c, px) : h \in Dims \ {0}, w \in Dims \ {0}, c \in {1}, px \in Pixels(1)}
    \cup {Img(h, w, c, px) : h \in Dims \ {0}, w \in Dims \ {0}, c \in {2}, px \in Pixels(2)}
    \cup {Img(h, w, c, px) : h \in Dims \ {0}, w \in Dims \ {0}, c \in {3}, px \in Pixels(3)}
    \cup {Img(h, w, c, px) : h \in Dims \ {0}, w \in Dims \ {0}, c \in {4}, px \in Pixels(4)}
    \cup {Img(h, w, c, <<>>) : h \in Dims, w \in {0}, c \in ChannelKinds}
    \cup {Img(h, w, c, <<>>) : h \in {0}, w \in Dims \ {0}, c \in ChannelKinds}

\* ndarray.shape
Shape(img) == IF img.c = 0 THEN <<img.h, img.w>> ELSE <<img.h, img.w, img.c>>

NoImg == Img(0, 0, 0, <<>>)

\* ---------------------------------------------------------------- files

Chunk(tag, fmt, h, w, c, opts, px) ==
    [tag |-> tag, fmt |-> fmt, h |-> h, w |-> w, c |-> c, opts |-> opts, px |-> px]

JunkChunk == Chunk("junk", "NONE", 0, 0, 0, <<>>, <<>>)

File(exists, data) == [exists |-> exists, data |-> data]

NoFile == File(FALSE, <<>>)

\* writing `new` at offset 0 of a file holding `old`
Overlay(old, new) == new \o SubSeq(old, Len(new) + 1, Len(old))

\* ---------------------------------------------------------------- codec

\* the optional `params` argument: None, or a list of flag/value integers
ParamsNone == [isNone |-> TRUE, v |-> <<>>]
ParamsOf(v) == [isNone |-> FALSE, v |-> v]

\* line 16: params if params is not None else []
EncodeParams(params) == IF params.isNone THEN <<>> ELSE params.v

\* cv2's findEncoder: it looks at the string from its last dot on (strrchr)
\* and takes the encoder whose extension list holds it
FindEncoder(s) ==
    LET d == LastIndex(s, Dot, Len(s))
        e == SubSeq(s, d, Len(s))
    IN  IF d = 0 THEN "NONE"
        ELSE IF e = <<Dot, "png">> THEN "PNG"
        ELSE IF e = <<Dot, "jpg">> THEN "JPEG"
        ELSE "NONE"

\* the channel count the format stores (JPEG has no alpha)
StoredChannels(fmt, img) ==
    IF fmt = "JPEG" /\ NChannels(img.c) = 4 THEN 3 ELSE NChannels(img.c)

\* JPEG is lossy: a sample comes back quantised
Lossy(px) == [i \in 1..Len(px) |-> px[i] - (px[i] % 2)]

EncodedPixels(fmt, img) ==
    IF fmt = "JPEG"
    THEN Lossy(SubSeq(img.px, 1, StoredChannels(fmt, img)))
    ELSE img.px

\* the byte buffer of a successful encode
Encoded(fmt, img, opts) ==
    << Chunk("hdr", fmt, img.h, img.w, StoredChannels(fmt, img), opts, <<>>),
       Chunk("data", fmt, 0, 0, 0, <<>>, EncodedPixels(fmt, img)) >>

\* cv2.imencode(ext, img, params): it raises cv2.error when no encoder is
\* found, when the image is empty and when the channel count is not 1, 3 or
\* 4; otherwise the encoder reports success with the buffer, or failure.
EncodeOutcomes(ext, img, opts) ==
    LET fmt == FindEncoder(ext)
    IN  IF \/ fmt = "NONE"
           \/ IsEmptyImg(img)
           \/ NChannels(img.c) \notin {1, 3, 4}
        THEN {[kind |-> "error", buf |-> <<>>]}
        ELSE {[kind |-> "ok", buf |-> Encoded(fmt, img, opts)],
              [kind |-> "fail", buf |-> <<>>]}

\* whether a buffer holds a complete encoded image
IsEncodedImage(buf) ==
    /\ Len(buf) = 2
    /\ buf[1].tag = "hdr"
    /\ buf[2].tag = "data"
    /\ buf[2].fmt = buf[1].fmt
    /\ Len(buf[2].px) = buf[1].c

\* cvtColor BGR -> gray, in thousandths
Gray(px) == (114 * px[1] + 587 * px[2] + 299 * px[3] + 500) \div 1000

\* the array the decoder builds for a decode mode
DecodedImage(buf, flags) ==
    LET hd == buf[1]
        px == buf[2].px
    IN  IF flags = "IMREAD_COLOR"
        THEN Img(hd.h, hd.w, 3,
                 IF hd.c = 1 THEN <<px[1], px[1], px[1]>> ELSE SubSeq(px, 1, 3))
        ELSE IF flags = "IMREAD_GRAYSCALE"
        THEN Img(hd.h, hd.w, 0, IF hd.c = 1 THEN px ELSE <<Gray(px)>>)
        ELSE Img(hd.h, hd.w, IF hd.c = 1 THEN 0 ELSE hd.c, px)

\* cv2.imdecode(buf, flags): it raises cv2.error on an empty buffer, returns
\* None when the bytes are no image, and the array otherwise
DecodeRaisesOnInvalid(buf, flags) ==
    IF Len(buf) = 0 \/ ~IsEncodedImage(buf)
    THEN [kind |-> "error", img |-> NoImg]
    ELSE [kind |-> "image", img |-> DecodedImage(buf, flags)]
Decode(buf, flags) ==
    IF Len(buf) = 0 THEN [kind |-> "error", img |-> NoImg]
    ELSE IF ~IsEncodedImage(buf) THEN [kind |-> "None", img |-> NoImg]
    ELSE [kind |-> "image", img |-> DecodedImage(buf, flags)]

\* line 6: flags=cv2.IMREAD_COLOR
DefaultFlagsGray == "IMREAD_GRAYSCALE"
DefaultFlags == "IMREAD_COLOR"

\* np.fromfile(path, dtype=np.uint8): OSError when the file is missing or
\* cannot be read, the file's bytes otherwise
FromfileOutcomesEmptyOnMissing(file) ==
    IF ~file.exists THEN {[kind |-> "ok", data |-> <<>>]}
    ELSE {[kind |-> "ok", data |-> file.data], [kind |-> "error", data |-> <<>>]}
FromfileOutcomes(file) ==
    IF ~file.exists THEN {[kind |-> "error", data |-> <<>>]}
    ELSE {[kind |-> "ok", data |-> file.data], [kind |-> "error", data |-> <<>>]}

\* line 17: if result
ShouldWriteAlways(res) == TRUE
ShouldWrite(res) == res.kind = "ok"

\* line 19: bool(result)
ReturnValueAlwaysTrue(res) == "True"
ReturnValue(res) == IF res.kind = "ok" THEN "True" ELSE "False"

\* ---------------------------------------------------------------- inputs

\* the path arguments of the writer
Paths ==
    { <<"テ">>,
      <<"テ", Dot, "png">>,
      <<"a", Dot, "jpg">>,
      <<"a", Dot>>,
      <<"d", Dot, "x", Sep, "a">>,
      <<Dot, "h">>,
      <<"a", Dot, "xyz">>,
      <<>> }

ParamsSet == {ParamsNone, ParamsOf(<<16, 9>>)}

Flags == {"IMREAD_COLOR", "IMREAD_GRAYSCALE", "IMREAD_UNCHANGED"}

\* the two concurrent callers' inputs
ConcPaths ==
    { <<"a">>, <<"a", Dot, "png">>, <<"a", Dot, "jpg">>, <<"テ", Dot, "png">> }

ConcImages == {Img(1, 1, 3, <<0, 0, 0>>), Img(1, 1, 3, <<1, 1, 1>>)}

ConcParams == {ParamsNone}

\* the files that exist before any call
JunkPng == <<"junk", Dot, "png">>
EmptyPng == <<"empty", Dot, "png">>
MissingPng == <<"missing", Dot, "png">>

AllArgs == Paths \cup ConcPaths

FilePaths ==
    AllArgs
    \cup {p \o DefaultExt : p \in AllArgs}
    \cup {splitext(p)[1] : p \in AllArgs}
    \cup {JunkPng, EmptyPng, MissingPng}

InitFS ==
    [p \in FilePaths |->
        IF p \in {JunkPng, <<"テ">>, <<"a">>, <<"a", Dot, "jpg">>}
        THEN File(TRUE, <<JunkChunk>>)
        ELSE IF p = EmptyPng THEN File(TRUE, <<>>)
        ELSE NoFile]

\* the path arguments of the reader
ReadPaths ==
    {EffectivePath(p, splitext(p)[2]) : p \in Paths}
    \cup {<<"テ">>, JunkPng, EmptyPng, MissingPng}

ConcReadPaths == {<<"a">>, <<"a", Dot, "png">>, JunkPng}

\* ---------------------------------------------------------------- state

Threads == {1, 2}

VARIABLES
    fs,       \* the file system: path -> file
    pc,       \* each caller's position: "idle", a line of the function, "done", "raised"
    kind,     \* the function of the caller's current or last call: "none", "w", "r"
    exc,      \* the exception the current call raised, "none" when it raised none
    warg,     \* imwrite_unicode: the caller's path argument
    wimg,     \*   the caller's image
    wparams,  \*   the caller's params
    wroot,    \*   local root
    wext,     \*   local ext
    wpath,    \*   local path
    wres,     \*   result, encoded_img of line 16
    wn,       \*   the chunks tofile has stored, -1 before it opened the file
    wret,     \*   the returned value
    wcodec,   \*   what cv2.imencode was given
    rpath,    \* imread_unicode: path
    rflags,   \*   flags
    rbuf,     \*   the array np.fromfile returned
    rret,     \*   the returned value
    rcodec    \*   what cv2.imdecode was given

wvars == <<warg, wimg, wparams, wroot, wext, wpath, wres, wn, wret, wcodec>>
rvars == <<rpath, rflags, rbuf, rret, rcodec>>
vars == <<fs, pc, kind, exc, wvars, rvars>>

ResUnset == [kind |-> "unset", buf |-> <<>>]
RetUnset == [kind |-> "unset", img |-> NoImg]
BufUnset == [set |-> FALSE, data |-> <<>>]
EncodeNotCalled == [called |-> FALSE, ext |-> <<>>, img |-> NoImg, opts |-> <<>>]
DecodeNotCalled == [called |-> FALSE, buf |-> <<>>, flags |-> "none"]

Init ==
    /\ fs = InitFS
    /\ pc = [t \in Threads |-> "idle"]
    /\ kind = [t \in Threads |-> "none"]
    /\ exc = [t \in Threads |-> "none"]
    /\ warg = [t \in Threads |-> <<>>]
    /\ wimg = [t \in Threads |-> NoImg]
    /\ wparams = [t \in Threads |-> ParamsNone]
    /\ wroot = [t \in Threads |-> <<>>]
    /\ wext = [t \in Threads |-> <<>>]
    /\ wpath = [t \in Threads |-> <<>>]
    /\ wres = [t \in Threads |-> ResUnset]
    /\ wn = [t \in Threads |-> -1]
    /\ wret = [t \in Threads |-> "unset"]
    /\ wcodec = [t \in Threads |-> EncodeNotCalled]
    /\ rpath = [t \in Threads |-> <<>>]
    /\ rflags = [t \in Threads |-> "none"]
    /\ rbuf = [t \in Threads |-> BufUnset]
    /\ rret = [t \in Threads |-> RetUnset]
    /\ rcodec = [t \in Threads |-> DecodeNotCalled]

Completed(t) == pc[t] \in {"done", "raised"}

\* ---------------------------------------------------------------- imwrite_unicode

\* line 10: a caller that has made no call yet calls imwrite_unicode(p, img, q)
WCall(t, P, I, Q) ==
    /\ pc[t] = "idle"
    /\ kind[t] = "none"
    /\ \E p \in P, img \in I, q \in Q :
          /\ warg' = [warg EXCEPT ![t] = p]
          /\ wpath' = [wpath EXCEPT ![t] = p]
          /\ wimg' = [wimg EXCEPT ![t] = img]
          /\ wparams' = [wparams EXCEPT ![t] = q]
    /\ kind' = [kind EXCEPT ![t] = "w"]
    /\ pc' = [pc EXCEPT ![t] = "w12"]
    /\ UNCHANGED <<fs, exc, wroot, wext, wres, wn, wret, wcodec, rvars>>

\* lines 12-15: root, ext = splitext(path); if not ext: ext = ".png"; path = path + ext
WSplitext(t) ==
    /\ pc[t] = "w12"
    /\ LET s == splitext(wpath[t])
       IN  /\ wroot' = [wroot EXCEPT ![t] = s[1]]
           /\ wext' = [wext EXCEPT ![t] = EffectiveExt(s[2])]
           /\ wpath' = [wpath EXCEPT ![t] = EffectivePath(wpath[t], s[2])]
    /\ pc' = [pc EXCEPT ![t] = "w16"]
    /\ UNCHANGED <<fs, kind, exc, warg, wimg, wparams, wres, wn, wret, wcodec, rvars>>

\* line 16: result, encoded_img = cv2.imencode(ext, img, params or [])
WEncode(t) ==
    /\ pc[t] = "w16"
    /\ LET e == CodecExtArg(wpath[t], wext[t])
           q == EncodeParams(wparams[t])
       IN  /\ wcodec' = [wcodec EXCEPT ![t] =
                           [called |-> TRUE, ext |-> e, img |-> wimg[t], opts |-> q]]
           /\ \E o \in EncodeOutcomes(e, wimg[t], q) :
                 IF o.kind = "error"
                 THEN /\ pc' = [pc EXCEPT ![t] = "raised"]
                      /\ exc' = [exc EXCEPT ![t] = "cv2.error"]
                      /\ UNCHANGED wres
                 ELSE /\ pc' = [pc EXCEPT ![t] = "w17"]
                      /\ wres' = [wres EXCEPT ![t] = [kind |-> o.kind, buf |-> o.buf]]
                      /\ UNCHANGED exc
    /\ UNCHANGED <<fs, kind, warg, wimg, wparams, wroot, wext, wpath, wn, wret, rvars>>

\* line 17: if result
WCheck(t) ==
    /\ pc[t] = "w17"
    /\ pc' = [pc EXCEPT ![t] = IF ShouldWrite(wres[t]) THEN "w18" ELSE "w19"]
    /\ UNCHANGED <<fs, kind, exc, wvars, rvars>>

\* line 18, tofile's open(path, "wb"): OSError, or the file exists and is empty
WOpen(t) ==
    /\ pc[t] = "w18"
    /\ \/ /\ pc' = [pc EXCEPT ![t] = "raised"]
          /\ exc' = [exc EXCEPT ![t] = "OSError"]
          /\ UNCHANGED <<fs, wn>>
       \/ /\ fs' = [fs EXCEPT ![TofilePath(wroot[t], wpath[t])] = File(TRUE, <<>>)]
          /\ wn' = [wn EXCEPT ![t] = 0]
          /\ pc' = [pc EXCEPT ![t] = "w18w"]
          /\ UNCHANGED exc
    /\ UNCHANGED <<kind, warg, wimg, wparams, wroot, wext, wpath, wres, wret, wcodec, rvars>>

\* line 18, tofile's fwrite and fclose: the whole buffer is stored, or only
\* its first n chunks are, which fwrite reports (OSError) and fclose does not
WWrite(t) ==
    /\ pc[t] = "w18w"
    /\ LET f == TofilePath(wroot[t], wpath[t])
           buf == wres[t].buf
       IN  \E n \in 0..Len(buf) :
              /\ fs' = [fs EXCEPT ![f] =
                          File(TRUE, Overlay(fs[f].data, SubSeq(buf, 1, n)))]
              /\ wn' = [wn EXCEPT ![t] = n]
              /\ \/ /\ pc' = [pc EXCEPT ![t] = "w19"]
                    /\ UNCHANGED exc
                 \/ /\ n < Len(buf)
                    /\ pc' = [pc EXCEPT ![t] = "raised"]
                    /\ exc' = [exc EXCEPT ![t] = "OSError"]
    /\ UNCHANGED <<kind, warg, wimg, wparams, wroot, wext, wpath, wres, wret, wcodec, rvars>>

\* line 19: return bool(result)
WReturn(t) ==
    /\ pc[t] = "w19"
    /\ wret' = [wret EXCEPT ![t] = ReturnValue(wres[t])]
    /\ pc' = [pc EXCEPT ![t] = "done"]
    /\ UNCHANGED <<fs, kind, exc, warg, wimg, wparams, wroot, wext, wpath, wres, wn,
                   wcodec, rvars>>

\* ---------------------------------------------------------------- imread_unicode

\* line 6: a caller calls imread_unicode(p, f), as its first call or after
\* its imwrite_unicode call ended (the test's write-then-read)
RCall(t, P, F) ==
    /\ \/ pc[t] = "idle" /\ kind[t] = "none"
       \/ Completed(t) /\ kind[t] = "w"
    /\ \E p \in P, f \in F :
          /\ rpath' = [rpath EXCEPT ![t] = p]
          /\ rflags' = [rflags EXCEPT ![t] = f]
    /\ kind' = [kind EXCEPT ![t] = "r"]
    /\ exc' = [exc EXCEPT ![t] = "none"]
    /\ pc' = [pc EXCEPT ![t] = "r7"]
    /\ UNCHANGED <<fs, wvars, rbuf, rret, rcodec>>

\* line 7: np.fromfile(path, dtype=np.uint8)
RFromfile(t) ==
    /\ pc[t] = "r7"
    /\ \E o \in FromfileOutcomes(fs[rpath[t]]) :
          IF o.kind = "error"
          THEN /\ pc' = [pc EXCEPT ![t] = "raised"]
               /\ exc' = [exc EXCEPT ![t] = "OSError"]
               /\ UNCHANGED rbuf
          ELSE /\ pc' = [pc EXCEPT ![t] = "r7d"]
               /\ rbuf' = [rbuf EXCEPT ![t] = [set |-> TRUE, data |-> o.data]]
               /\ UNCHANGED exc
    /\ UNCHANGED <<fs, kind, wvars, rpath, rflags, rret, rcodec>>

\* line 7: return cv2.imdecode(buf, flags)
RDecode(t) ==
    /\ pc[t] = "r7d"
    /\ rcodec' = [rcodec EXCEPT ![t] =
                    [called |-> TRUE, buf |-> rbuf[t].data, flags |-> rflags[t]]]
    /\ LET d == Decode(rbuf[t].data, rflags[t])
       IN  IF d.kind = "error"
           THEN /\ pc' = [pc EXCEPT ![t] = "raised"]
                /\ exc' = [exc EXCEPT ![t] = "cv2.error"]
                /\ UNCHANGED rret
           ELSE /\ pc' = [pc EXCEPT ![t] = "done"]
                /\ rret' = [rret EXCEPT ![t] = d]
                /\ UNCHANGED exc
    /\ UNCHANGED <<fs, kind, wvars, rpath, rflags, rbuf>>

\* ---------------------------------------------------------------- specifications

\* one caller: a write, a read, or a write followed by a read
Next ==
    \/ WCall(1, Paths, Images, ParamsSet)
    \/ WSplitext(1)
    \/ WEncode(1)
    \/ WCheck(1)
    \/ WOpen(1)
    \/ WWrite(1)
    \/ WReturn(1)
    \/ RCall(1, ReadPaths, Flags \cup {DefaultFlags})
    \/ RFromfile(1)
    \/ RDecode(1)

Spec == Init /\ [][Next]_vars

\* two concurrent callers, each making one call
NextConc ==
    \E t \in Threads :
        \/ WCall(t, ConcPaths, ConcImages, ConcParams)
        \/ WSplitext(t)
        \/ WEncode(t)
        \/ WCheck(t)
        \/ WOpen(t)
        \/ WWrite(t)
        \/ WReturn(t)
        \/ (kind[t] = "none" /\ RCall(t, ConcReadPaths, {DefaultFlags}))
        \/ RFromfile(t)
        \/ RDecode(t)

SpecConc == Init /\ [][NextConc]_vars

\* ---------------------------------------------------------------- properties

\* the extension os.path.splitext finds in the caller's path argument
ArgExt(t) == splitext(warg[t])[2]

\* the writer of caller t is past lines 12-15
PastSplit(t) == wext[t] # <<>>

\* caller t's read followed its own write, which returned True and stored the
\* whole buffer; the read was of the effective path, with the default flags,
\* and its byte read succeeded
ReadAfterWrite(t) ==
    /\ kind[t] = "r"
    /\ Completed(t)
    /\ wret[t] = "True"
    /\ fs[wpath[t]].data = wres[t].buf
    /\ rpath[t] = wpath[t]
    /\ rflags[t] = DefaultFlags
    /\ rbuf[t].set

\* C1 as stated: a write of any image followed by a read of the effective
\* path with the default flags yields an image of the same shape, and with
\* PNG the same pixels.
C1_RoundTripAnyImage ==
    \A t \in Threads :
        ReadAfterWrite(t) =>
            /\ pc[t] = "done"
            /\ rret[t].kind = "image"
            /\ Shape(rret[t].img) = Shape(wimg[t])
            /\ (FindEncoder(wext[t]) = "PNG" => rret[t].img.px = wimg[t].px)

\* C1 amended: the read yields an image of shape (h, w, 3); it is the shape
\* of the written image when that image has three channels, and then with
\* PNG the pixels are equal too.
C1_RoundTripThreeChannels ==
    \A t \in Threads :
        ReadAfterWrite(t) =>
            /\ pc[t] = "done"
            /\ rret[t].kind = "image"
            /\ Shape(rret[t].img) = <<wimg[t].h, wimg[t].w, 3>>
            /\ (wimg[t].c = 3 =>
                  /\ Shape(rret[t].img) = Shape(wimg[t])
                  /\ (FindEncoder(wext[t]) = "PNG" => rret[t].img.px = wimg[t].px))

C1_Witness ==
    \E t \in Threads :
        /\ ReadAfterWrite(t)
        /\ warg[t] = <<"テ">>
        /\ wimg[t].c = 3
        /\ wimg[t].px = <<1, 1, 1>>
        /\ rret[t].img = wimg[t]

\* C2: a call that returned True for a path in which splitext finds no
\* extension handed ".png" to the codec, got the PNG encoding, created the
\* file at p + ".png" and left whatever is at p as it was.
C2_DefaultExtension ==
    \A t \in Threads :
        (wret[t] = "True" /\ ArgExt(t) = <<>>) =>
            /\ wpath[t] = warg[t] \o <<Dot, "png">>
            /\ wcodec[t].ext = <<Dot, "png">>
            /\ wres[t].buf[1].fmt = "PNG"
            /\ fs[wpath[t]] = File(TRUE, SubSeq(wres[t].buf, 1, wn[t]))
            /\ fs[warg[t]] = InitFS[warg[t]]

C2_Witness ==
    \E t \in Threads :
        /\ wret[t] = "True"
        /\ warg[t] = <<"テ">>
        /\ fs[<<"テ", Dot, "png">>].data = wres[t].buf
        /\ fs[<<"テ">>].exists

\* the path holds a dot somewhere
HasDot(p) == \E i \in 1..Len(p) : p[i] = Dot

\* C3 as stated: a path with a dot in it (a trailing dot, a dot in a
\* directory component or at the start of the file name included) is written
\* as given.
C3_AnyDotIsAnExtension ==
    \A t \in Threads :
        (PastSplit(t) /\ HasDot(warg[t])) => wpath[t] = warg[t]

\* C3 amended: when splitext finds an extension in the path (a trailing dot
\* is one, "."), the path is used as given, the codec is handed exactly that
\* extension, and no file but the one at the path changes.
C3_ExtensionPreserved ==
    \A t \in Threads :
        (PastSplit(t) /\ ArgExt(t) # <<>>) =>
            /\ wpath[t] = warg[t]
            /\ wext[t] = ArgExt(t)
            /\ (wcodec[t].called => wcodec[t].ext = ArgExt(t))
            /\ \A q \in FilePaths \ {warg[t]} : fs[q] = InitFS[q]
            /\ (wn[t] >= 0 => fs[warg[t]] = File(TRUE, SubSeq(wres[t].buf, 1, wn[t])))

C3_Witness ==
    \E t \in Threads :
        /\ warg[t] = <<"a", Dot, "jpg">>
        /\ wret[t] = "True"
        /\ wn[t] = 2
        /\ wres[t].buf[1].fmt = "JPEG"

\* C4 as stated: whenever the codec reported success the call returns True,
\* whatever the file write did.
C4_TrueWheneverEncoded ==
    \A t \in Threads :
        (kind[t] = "w" /\ Completed(t) /\ wres[t].kind = "ok") =>
            (pc[t] = "done" /\ wret[t] = "True")

\* C4 amended: a call that returns, returns True exactly when the codec
\* reported success; after a failed encode it returns False; after a
\* successful encode it returns True (also when tofile stored less than the
\* buffer without reporting it) or raises tofile's OSError.
C4_BooleanContract ==
    \A t \in Threads :
        (kind[t] = "w" /\ Completed(t) /\ wres[t].kind # "unset") =>
            /\ (pc[t] = "done" => (wret[t] = "True" <=> wres[t].kind = "ok"))
            /\ (pc[t] = "done" => wret[t] \in {"True", "False"})
            /\ (wres[t].kind = "fail" => pc[t] = "done")
            /\ (pc[t] = "raised" => (exc[t] = "OSError" /\ wret[t] = "unset"))

C4_Witness ==
    \E t \in Threads :
        /\ kind[t] = "w"
        /\ wres[t].kind = "ok"
        /\ pc[t] = "raised"
        /\ exc[t] = "OSError"

\* the path argument has an extension that names no encoder
ArgUnknownExt(t) == ArgExt(t) # <<>> /\ FindEncoder(ArgExt(t)) = "NONE"

\* C5 as stated: with an extension that names no encoder the call returns
\* False, without raising and without writing.
C5_UnknownExtReturnsFalse ==
    \A t \in Threads :
        (kind[t] = "w" /\ Completed(t) /\ ArgUnknownExt(t)) =>
            (pc[t] = "done" /\ wret[t] = "False" /\ wn[t] = -1)

\* C5 amended: with an extension that names no encoder the encode step
\* raises cv2.error, which the call propagates; it returns no value, the
\* file write is skipped and no file changes.
C5_UnknownExtRaises ==
    \A t \in Threads :
        (kind[t] = "w" /\ Completed(t) /\ ArgUnknownExt(t)) =>
            /\ pc[t] = "raised"
            /\ exc[t] = "cv2.error"
            /\ wret[t] = "unset"
            /\ wn[t] = -1
            /\ fs = InitFS

C5_Witness ==
    \E t \in Threads :
        /\ kind[t] = "w"
        /\ warg[t] = <<"a", Dot, "xyz">>
        /\ pc[t] = "raised"
        /\ wcodec[t].called

\* C6: a read of a path that does not exist, or whose bytes cannot be read,
\* raises the byte read's OSError; it returns nothing and cv2.imdecode is
\* not called.
C6_ReadFailurePropagates ==
    \A t \in Threads :
        (kind[t] = "r" /\ Completed(t) /\ (~fs[rpath[t]].exists \/ ~rbuf[t].set)) =>
            /\ pc[t] = "raised"
            /\ exc[t] = "OSError"
            /\ rret[t] = RetUnset
            /\ ~rcodec[t].called

C6_Witness ==
    \E t \in Threads :
        /\ kind[t] = "r"
        /\ rpath[t] = MissingPng
        /\ pc[t] = "raised"

\* C7 as stated: a read of a readable file that holds no valid image, an
\* empty file included, returns None and raises nothing.
C7_InvalidBytesReturnNone ==
    \A t \in Threads :
        (kind[t] = "r" /\ Completed(t) /\ rbuf[t].set /\ ~IsEncodedImage(rbuf[t].data)) =>
            (pc[t] = "done" /\ rret[t].kind = "None" /\ exc[t] = "none")

\* C7 amended: a read of a readable, non-empty file that holds no valid
\* image returns None and raises nothing; a read of an empty file raises
\* cv2.error.
C7_NonEmptyInvalidBytesReturnNone ==
    \A t \in Threads :
        (kind[t] = "r" /\ Completed(t) /\ rbuf[t].set /\ ~IsEncodedImage(rbuf[t].data)) =>
            IF Len(rbuf[t].data) > 0
            THEN pc[t] = "done" /\ rret[t].kind = "None" /\ exc[t] = "none"
            ELSE pc[t] = "raised" /\ exc[t] = "cv2.error" /\ rret[t] = RetUnset

C7_Witness ==
    \E t \in Threads :
        /\ kind[t] = "r"
        /\ rpath[t] = JunkPng
        /\ pc[t] = "done"
        /\ rret[t].kind = "None"

\* what a writer running alone leaves in its file
Alone(t) ==
    IF wn[t] < 0 THEN InitFS[wpath[t]]
    ELSE File(TRUE, SubSeq(wres[t].buf, 1, wn[t]))

\* what a writer running alone returns
AloneReturn(t) ==
    IF pc[t] = "done" THEN ReturnValue(wres[t]) ELSE "unset"

BothWritersDone == \A t \in Threads : kind[t] = "w" /\ Completed(t)

\* C8 as stated: two writers given distinct path arguments (both returning
\* True, their buffers stored whole) end with the files and return values
\* each would have alone.
C8_DistinctArgumentsIndependent ==
    ( /\ BothWritersDone
      /\ warg[1] # warg[2]
      /\ \A t \in Threads : wret[t] = "True" /\ wn[t] = Len(wres[t].buf) ) =>
        \A t \in Threads : fs[wpath[t]] = Alone(t) /\ wret[t] = AloneReturn(t)

\* C8 amended: two writers whose effective paths are distinct end with the
\* files and return values each would have alone, and change no other file.
C8_DistinctEffectivePathsIndependent ==
    (BothWritersDone /\ wpath[1] # wpath[2]) =>
        /\ \A t \in Threads : fs[wpath[t]] = Alone(t) /\ wret[t] = AloneReturn(t)
        /\ \A q \in FilePaths \ {wpath[1], wpath[2]} : fs[q] = InitFS[q]

C8_Witness ==
    /\ BothWritersDone
    /\ warg[1] = <<"a">>
    /\ warg[2] = <<"a", Dot, "jpg">>
    /\ wimg[1] # wimg[2]
    /\ wn[1] = 2
    /\ wn[2] = 2

\* C9: the codec is handed the extension, the image and the params, or the
\* bytes read and the flags, and never the path; two writers whose paths
\* have the same extension, given the same image and params, hand the codec
\* the same arguments and get the same buffer; two readers that read the
\* same bytes with the same flags end alike.
C9_CodecBoundary ==
    /\ \A t \in Threads :
          /\ wcodec[t].called =>
                /\ wcodec[t].ext = EffectiveExt(ArgExt(t))
                /\ wcodec[t].img = wimg[t]
                /\ wcodec[t].opts = EncodeParams(wparams[t])
          /\ rcodec[t].called =>
                /\ rcodec[t].buf = rbuf[t].data
                /\ rcodec[t].flags = rflags[t]
    /\ \A t, u \in Threads :
          /\ ( /\ wcodec[t].called /\ wcodec[u].called
               /\ EffectiveExt(ArgExt(t)) = EffectiveExt(ArgExt(u))
               /\ wimg[t] = wimg[u]
               /\ wparams[t] = wparams[u] ) =>
                  /\ wcodec[t] = wcodec[u]
                  /\ (wres[t].kind = "ok" /\ wres[u].kind = "ok" => wres[t] = wres[u])
          /\ ( /\ rcodec[t].called /\ rcodec[u].called
               /\ rbuf[t] = rbuf[u]
               /\ rflags[t] = rflags[u] ) =>
                  (pc[t] = pc[u] /\ rret[t] = rret[u] /\ exc[t] = exc[u])

C9_Witness ==
    /\ warg[1] = <<"a">>
    /\ warg[2] = <<"テ", Dot, "png">>
    /\ wimg[1] = wimg[2]
    /\ wres[1].kind = "ok"
    /\ wres[2] = wres[1]

\* C10: a step of imread_unicode changes no file; a step of imwrite_unicode
\* changes no file but the one at its effective path, and that only after a
\* successful encode; a call that returned False has left every file as it
\* was; no step changes the caller's path, image or params.
C10_Frame ==
    [][\A t \in Threads :
          (pc'[t] # pc[t]) =>
              /\ (kind'[t] = "r" => fs' = fs)
              /\ (kind'[t] = "w" =>
                    \A q \in FilePaths :
                        fs'[q] # fs[q] => (q = wpath[t] /\ wres[t].kind = "ok"))
              /\ (wret'[t] = "False" => fs' = InitFS)
              /\ (pc[t] # "idle" =>
                    /\ warg'[t] = warg[t]
                    /\ wimg'[t] = wimg[t]
                    /\ wparams'[t] = wparams[t])]_vars

C10_Witness ==
    \E t \in Threads :
        /\ kind[t] = "r"
        /\ pc[t] = "done"
        /\ warg[t] = <<"a", Dot, "jpg">>
        /\ wn[t] = 2
        /\ fs[warg[t]] # InitFS[warg[t]]

====
